---- MODULE Spec2Model ----
(***************************************************************************)
(* Model of the question pipeline of data_agent:                           *)
(*   mapper/mapper.py           (map_query: the classifier's answer, the   *)
(*                               rule fallback, the overrides, the session *)
(*                               context)                                  *)
(*   planner/plan_validator.py  (validate_plan and its helpers)            *)
(*   planner/planner.py         (plan_from_slots, the sanitizer of the     *)
(*                               externally generated plan, the rule-based *)
(*                               synthesizer, the plot derivation)         *)
(*   agent/orchestrator.py      (run_tools, _save_session_memory)          *)
(*   memory/memory.py           (get_session, update_session, _deep_merge) *)
(*                                                                         *)
(* Six specifications share the variables: Spec (planning and execution    *)
(* of given slots), MapperSpec (map_query alone), SessionSpec (the turns   *)
(* of a session, the session record saved after each), TurnSpec (one       *)
(* turn, each step taken in sequence), MemorySpec (the session store       *)
(* under a clock) and RaceSpec (two callers of update_session, the read    *)
(* and the write of each being separate steps).                            *)
(*                                                                         *)
(* Representation of the Python values.                                    *)
(*  - A JSON scalar is a record [k, n]: k is the kind of the value and n   *)
(*    its number (0 when the kind has none).  Dates are ISO strings        *)
(*    "2017-12-0n" (n of 0 and below: the days before December); kind      *)
(*    "date" holds n, kind "datetime" holds the same date followed by a    *)
(*    time of day ("2017-12-0n 00:00:00").  Kind                           *)
(*    "absent" says that the key is not in the dict.                       *)
(*  - A question is the set of the tokens its text holds: the regular      *)
(*    expressions and keyword tests of the code read nothing else.         *)
(*  - An assumption note (a Python string) is a record [tag, a, b]: the    *)
(*    kind of the note and the numbers its text holds.                     *)
(***************************************************************************)
EXTENDS Integers, Sequences, FiniteSets, TLC

----------------------------------------------------------------------------
(* Bounds of the model *)

\* dates are 2017-12-01 .. 2017-12-0<MaxDate>
MaxDate == 2
\* number of tokens of a question
MaxQTokens == 1
\* number of calls an external proposal adds after the diagnosis template
MaxTail == 2
\* number of calls of a plan whose tool fails or returns no rows
MaxFail == 1
\* number of phrases of a question map_query is run on
MaxWords == 2
\* number of questions of a session
MaxTurns == 3
\* leaf values of the objects written to the session store
MaxLeaf == 2
\* number of patches written to a session
MaxPatches == 2
\* number of times the clock advances
MaxTicks == 3

(* Program constants *)

DAYS_DEFAULT_OVERVIEW == 9
DAYS_DEFAULT_RETENTION == 7
DAYS_MIN == 1
DAYS_MAX == 90
DEFAULT_DAYS == 9

\* a faulty variant: the whitelist with a tool the registry does not hold
TOOL_WHITELIST_with_extra_tool ==
    {"overview_daily", "overview_day", "funnel_daily", "user_retention",
     "user_activity", "category_contrib_buyers", "new_vs_old_user_conversion",
     "drop_table"}

TOOL_WHITELIST ==
    {"overview_daily", "overview_day", "funnel_daily", "user_retention",
     "user_activity", "category_contrib_buyers", "new_vs_old_user_conversion"}

TOOLS_NEED_DAYS ==
    {"overview_daily", "funnel_daily", "user_retention", "user_activity"}

TOOLS_NEED_DT ==
    {"overview_day", "category_contrib_buyers", "new_vs_old_user_conversion"}

INTENTS ==
    {"overview_day", "overview_daily", "funnel_daily", "category_contrib_buyers",
     "user_retention", "user_activity", "new_vs_old_user_conversion",
     "diagnose_generic", "unknown"}

----------------------------------------------------------------------------
(* JSON values *)

Dates == 1..MaxDate

Absent == [k |-> "absent", n |-> 0]
Null == [k |-> "null", n |-> 0]
IntV(i) == [k |-> "int", n |-> i]
DateV(d) == [k |-> "date", n |-> d]
DateTimeV(d) == [k |-> "datetime", n |-> d]
\* a string int() parses: "7"
NumStr(i) == [k |-> "numstr", n |-> i]
\* a string int() does not parse: "abc"
BadStr == [k |-> "str", n |-> 0]

\* Python truthiness: None, 0 and a missing key (dict.get gives None) are falsy
Truthy(v) ==
    CASE v.k \in {"absent", "null"} -> FALSE
      [] v.k = "int" -> v.n # 0
      [] OTHER -> TRUE

\* v is not None, for the value dict.get(key) returns
NotNone(v) == v.k \notin {"absent", "null"}

IsStr(v) == v.k \in {"date", "datetime", "numstr", "str"}

\* str(v)[:10] == date_str[:10], date_str being the ISO string of date d
Str10Is(v, d) == v.k \in {"date", "datetime"} /\ v.n = d

\* Order of the strings the model compares: "2017-12-0n" < "2017-12-0n 00:00:00"
\* < "2017-12-0(n+1)" < "abc"
LexKey(v) ==
    CASE v.k = "date" -> 2 * v.n
      [] v.k = "datetime" -> 2 * v.n + 1
      [] OTHER -> 2 * (MaxDate + 2)

NoParams == [dt |-> Absent, days |-> Absent, start |-> Absent, end |-> Absent,
             end_dt |-> Absent]

\* the unified call {tool_key, tool, params}
Call(tk, p) == [tool_key |-> tk, tool |-> tk, params |-> p]

\* str(i) of a non-negative integer, as its sequence of decimal digits
RECURSIVE ToStr(_)
ToStr(i) == IF i < 10 THEN <<i>> ELSE ToStr(i \div 10) \o <<i % 10>>

----------------------------------------------------------------------------
(* Questions *)

DateTok(d) == [t |-> "date", n |-> d]
\* a range word: "最近", "趋势", "过去", ...
RangeTok == [t |-> "range", n |-> 0]
\* "画图" / "趋势图"
PlotTok == [t |-> "plot", n |-> 0]
\* "类目"
CategoryTok == [t |-> "category", n |-> 0]

\* a range phrase with two endpoints, in the order they are written:
\* "<m1>月<d1>日到<m2>月<d2>日", or "<m1>月<d1>日到<d2>日" when m2 = 0
SpanTok(m1, d1, m2, d2) ==
    [t |-> "span", n |-> ((m1 * 100 + d1) * 100 + m2) * 100 + d2]
SpanM1(tok) == tok.n \div 1000000
SpanD1(tok) == (tok.n \div 10000) % 100
SpanM2(tok) == (tok.n \div 100) % 100
SpanD2(tok) == tok.n % 100
\* "最近<N>天"
LastDaysTok(N) == [t |-> "lastdays", n |-> N]
\* "昨天"
YesterdayTok == [t |-> "yesterday", n |-> 0]
\* the phrases of a question the mapper looks for:
\*   one_week "一周", which_category "哪个类目",
\*   which_categories_caused "哪些类目导致", drag "拖累", why "为什么",
\*   dropped "掉了", decline "下降", buyer_count "买家数", uv "uv",
\*   new_user_conv_rate "新用户转化率", dau "日活", retention_rate "留存率",
\*   gmv "gmv", core_metrics "核心指标", funnel "漏斗", how_is "怎么样"
WordTok(word) == [t |-> word, n |-> 0]
Words ==
    {"one_week", "which_category", "which_categories_caused", "drag", "why",
     "dropped", "decline", "buyer_count", "uv", "new_user_conv_rate", "dau",
     "retention_rate", "gmv", "core_metrics", "funnel", "how_is"}

\* the keywords of the code a token's text contains as a substring:
\*   recent "最近", near "近", month "月", day "日", category "类目",
\*   which_categories "哪些类目", caused "导致", buyer "买家",
\*   new_user "新用户", conv_rate "转化率", conversion "转化",
\*   retention "留存", yesterday "昨天"
Kw(tok) ==
    CASE tok.t = "range" -> {"recent", "near"}
      [] tok.t = "lastdays" -> {"recent", "near"}
      [] tok.t = "span" -> {"month", "day"}
      [] tok.t = "category" -> {"category"}
      [] tok.t = "which_category" -> {"which_category", "category"}
      [] tok.t = "which_categories_caused" -> {"which_categories", "category", "caused"}
      [] tok.t = "buyer_count" -> {"buyer_count", "buyer"}
      [] tok.t = "new_user_conv_rate" -> {"new_user", "conv_rate", "conversion"}
      [] tok.t = "dau" -> {"dau", "day"}
      [] tok.t = "retention_rate" -> {"retention_rate", "retention"}
      [] tok.t = "yesterday" -> {"yesterday"}
      [] tok.t \in {"date", "plot"} -> {}
      [] OTHER -> {tok.t}

\* k in q
Has(q, k) == \E tok \in q : k \in Kw(tok)
\* any(k in q for k in ks)
HasAny(q, ks) == \E k \in ks : Has(q, k)

\* the number of characters of a token's text
TokLen(tok) ==
    CASE tok.t = "date" -> 10
      [] tok.t = "span" ->
            (IF SpanM1(tok) >= 10 THEN 2 ELSE 1) + 1
            + (IF SpanD1(tok) >= 10 THEN 2 ELSE 1) + 2
            + (IF SpanM2(tok) = 0 THEN 0
               ELSE (IF SpanM2(tok) >= 10 THEN 2 ELSE 1) + 1)
            + (IF SpanD2(tok) >= 10 THEN 2 ELSE 1) + 1
      [] tok.t = "lastdays" -> 3 + Len(ToStr(tok.n))
      [] tok.t \in {"uv", "one_week", "drag", "dropped", "decline", "dau",
                    "funnel", "range", "plot", "category", "yesterday"} -> 2
      [] tok.t \in {"why", "buyer_count", "retention_rate", "gmv", "how_is"} -> 3
      [] tok.t \in {"which_category", "core_metrics"} -> 4
      [] OTHER -> 6

RECURSIVE SumLen(_)
SumLen(q) ==
    IF q = {} THEN 0
    ELSE LET tok == CHOOSE x \in q : TRUE IN TokLen(tok) + 1 + SumLen(q \ {tok})

\* len(q) of the stripped text: the tokens are separated by one space
TextLen(q) == IF q = {} THEN 0 ELSE SumLen(q) - 1


QTokens == {DateTok(d) : d \in Dates} \cup {RangeTok, PlotTok, CategoryTok}

Questions == {q \in SUBSET QTokens : Cardinality(q) <= MaxQTokens}

\* a month and a day of 2017 as a date: the day of December, 0 and below for
\* the days before December
Ord(mo, d) == (mo - 12) * 31 + d
\* 1 <= mo <= 12 and 1 <= d <= 31
ValidMD(mo, d) == mo \in 1..12 /\ d \in 1..31

\* the month-day pairs "(\d{1,2})月(\d{1,2})[号日]" finds in a range phrase
SpanMatches(tok) ==
    {<<SpanM1(tok), SpanD1(tok)>>}
    \cup (IF SpanM2(tok) # 0 THEN {<<SpanM2(tok), SpanD2(tok)>>} ELSE {})

\* the explicit dates of the text (the list without duplicates, as a set)
_extract_dates_from_text(text) ==
    {tok.n : tok \in {x \in text : x.t = "date"}}
    \cup UNION {{Ord(md[1], md[2]) : md \in {x \in SpanMatches(tok) : ValidMD(x[1], x[2])}} :
                    tok \in {x \in text : x.t = "span"}}

_has_range_words(q) == Has(q, "recent")

----------------------------------------------------------------------------
(* Assumption notes *)

Note(tag, a, b) == [tag |-> tag, a |-> a, b |-> b]

IsPrefix(s, t) == Len(s) <= Len(t) /\ SubSeq(t, 1, Len(s)) = s

\* f"days={v}" in str(assumptions): of the notes the slots carry only
\* "未指定 days，沿用上一轮 days=<a>" holds the text "days="
DaysTextIn(v, assumptions) ==
    \E i \in 1..Len(assumptions) :
        /\ assumptions[i].tag = "recall_days"
        /\ IsPrefix(ToStr(v), ToStr(assumptions[i].a))

----------------------------------------------------------------------------
(* not_supported objects: "null", "empty_dict" ({}), "slots_dict" and
   "llm_dict" (non-empty objects of the mapper and of the generator) and
   "str" (a non-empty value that is no object) *)

NSTruthy(ns) == ns \in {"slots_dict", "llm_dict", "str"}
NSIsDict(ns) == ns \in {"empty_dict", "slots_dict", "llm_dict"}

----------------------------------------------------------------------------
(* plan_validator.py *)

\* any(k in p and p.get(k) for k in ("dt", "days", "start", "end"))
CallHasTimeParams(p) ==
    Truthy(p.dt) \/ Truthy(p.days) \/ Truthy(p.start) \/ Truthy(p.end)

_plan_has_time_params(plan) ==
    \E i \in 1..Len(plan.calls) : CallHasTimeParams(plan.calls[i].params)

\* one iteration of the loop of _plan_covers_date: "yes" (return True),
\* "no" (next call) or "raise" (TypeError of str <= int)
CallCoversDate(p, d) ==
    IF Truthy(p.dt) /\ Str10Is(p.dt, d) THEN "yes"
    ELSE IF Truthy(p.start) /\ Truthy(p.end)
    THEN IF ~IsStr(p.start) THEN "raise"
         ELSE IF ~(LexKey(p.start) <= 2 * d) THEN "no"
         ELSE IF ~IsStr(p.end) THEN "raise"
         ELSE IF 2 * d <= LexKey(p.end) THEN "yes" ELSE "no"
    ELSE "no"

RECURSIVE CoversFrom(_, _, _)
CoversFrom(calls, i, d) ==
    IF i > Len(calls) THEN "no"
    ELSE LET r == CallCoversDate(calls[i].params, d)
         IN IF r = "no" THEN CoversFrom(calls, i + 1, d) ELSE r

_plan_covers_date(plan, d) == CoversFrom(plan.calls, 1, d)

\* the call after _inject_default_days ran over it
InjectCall(c) ==
    IF c.tool \in TOOLS_NEED_DAYS /\ ~NotNone(c.params.days)
    THEN [c EXCEPT !.params.days = IntV(DEFAULT_DAYS)]
    ELSE c

_inject_default_days(plan) ==
    IF plan.calls = <<>> \/ _plan_has_time_params(plan) THEN plan
    ELSE LET calls == [i \in 1..Len(plan.calls) |-> InjectCall(plan.calls[i])]
             injected == calls # plan.calls
             a == plan.assumptions
         IN [plan EXCEPT
               !.calls = calls,
               !.assumptions =
                   IF injected /\ a.k = "dict" /\ a.days.k = "absent"
                   THEN [a EXCEPT !.days = IntV(DEFAULT_DAYS)]
                   ELSE a]

ToolErrors(calls) ==
    {[err |-> "missing_tool", n |-> i] :
        i \in {j \in 1..Len(calls) : calls[j].tool = ""}}
    \cup
    {[err |-> "not_whitelisted", n |-> i] :
        i \in {j \in 1..Len(calls) :
                 calls[j].tool # "" /\ calls[j].tool \notin TOOL_WHITELIST}}

\* the dates step 2 of validate_plan looks at
DatesToCheck(plan, user_text) ==
    IF ~NSTruthy(plan.not_supported) /\ plan.calls # <<>>
    THEN _extract_dates_from_text(user_text)
    ELSE {}

DateErrors(plan, user_text) ==
    {[err |-> "date_uncovered", n |-> d] :
        d \in {x \in DatesToCheck(plan, user_text) :
                 _plan_covers_date(plan, x) = "no"}}

\* validate_plan(plan, user_text): [raised, plan, errors]; errors is the list
\* of the code as a set
validate_plan(plan, user_text) ==
    IF \E d \in DatesToCheck(plan, user_text) : _plan_covers_date(plan, d) = "raise"
    THEN [raised |-> TRUE, plan |-> plan, errors |-> {}]
    ELSE [raised |-> FALSE,
          plan |-> _inject_default_days(plan),
          errors |-> ToolErrors(plan.calls) \cup DateErrors(plan, user_text)]

----------------------------------------------------------------------------
(* planner.py *)

\* tools.db.get_default_dt(): the latest day of the dataset
_get_default_dt_safe == DateV(MaxDate)

Max(a, b) == IF a >= b THEN a ELSE b
Min(a, b) == IF a <= b THEN a ELSE b

_clamp_days(d) == Max(DAYS_MIN, Min(DAYS_MAX, d))

Plot(type, i, title) == [plot_type |-> type, from_call |-> ToStr(i), title |-> title]

\* the plots one call gives; i is the call's index in Python (from 0)
PlotsOfCall(tk, i, want_plot) ==
    CASE tk = "overview_day" ->
           IF want_plot THEN <<Plot("trend", i, "day metrics")>> ELSE <<>>
      [] tk = "overview_daily" -> <<Plot("trend", i, "Overview trend")>>
      [] tk = "funnel_daily" -> <<Plot("trend", i, "Funnel trend")>>
      [] tk = "category_contrib_buyers" ->
           <<Plot("topn_bar", i, "Category contribution TopN")>>
      [] tk = "user_retention" -> <<Plot("trend", i, "retention trend")>>
      [] tk = "user_activity" -> <<Plot("trend", i, "DAU trend")>>
      [] OTHER -> <<>>

\* the loop over enumerate(calls_list, start), from the i-th call on
RECURSIVE PlotsFrom(_, _, _, _)
PlotsFrom(calls_list, i, start, want_plot) ==
    IF i > Len(calls_list) THEN <<>>
    ELSE PlotsOfCall(calls_list[i].tool_key, start + i - 1, want_plot)
         \o PlotsFrom(calls_list, i + 1, start, want_plot)

\* a faulty variant: the calls counted from 1
_add_plots_from_calls_counting_from_1(calls_list, q) ==
    PlotsFrom(calls_list, 1, 1, PlotTok \in q)

_add_plots_from_calls(calls_list, q) == PlotsFrom(calls_list, 1, 0, PlotTok \in q)

Plan(calls, plots, assumptions, ns) ==
    [calls |-> calls, plots |-> plots, assumptions |-> assumptions,
     not_supported |-> ns]

\* the plan of the return statements of _plan_from_slots_rule that hold calls
RulePlan(calls, assumptions, question) ==
    Plan(calls, _add_plots_from_calls(calls, question), assumptions, "null")

\* the diagnose_generic branch of _plan_from_slots_rule
RuleDiagnose(question, slots, assumptions0) ==
    LET dt == slots.dt
        days == slots.days
        prev_dt == slots.prev_dt
        target_dt == IF Truthy(dt) THEN dt ELSE _get_default_dt_safe
        a1 == IF ~Truthy(dt)
              THEN Append(assumptions0, Note("dt_missing_use_latest", 0, 0))
              ELSE IF \A i \in 1..Len(assumptions0) :
                         assumptions0[i] # Note("use_dt_first", 0, 0)
              THEN Append(assumptions0, Note("use_dt_first", 0, 0))
              ELSE assumptions0
        two_day == Truthy(prev_dt) /\ prev_dt # target_dt
        d == IF days.k = "int" THEN _clamp_days(days.n) ELSE DAYS_DEFAULT_OVERVIEW
        a2 == IF two_day
              THEN Append(a1, Note("two_day_compare", prev_dt.n, target_dt.n))
              ELSE IF days.k # "int"
              THEN Append(a1, Note("days_missing_default", DAYS_DEFAULT_OVERVIEW, 0))
              ELSE IF days.n # d
              THEN Append(a1, Note("days_clamped", 0, 0))
              ELSE a1
        c1 == IF two_day
              THEN <<Call("overview_day", [NoParams EXCEPT !.dt = prev_dt]),
                     Call("overview_day", [NoParams EXCEPT !.dt = target_dt]),
                     Call("funnel_daily",
                          [NoParams EXCEPT !.days = IntV(2), !.end_dt = target_dt])>>
              ELSE <<Call("overview_day", [NoParams EXCEPT !.dt = target_dt]),
                     Call("funnel_daily", [NoParams EXCEPT !.days = IntV(d)])>>
        c2 == IF Truthy(target_dt) /\ Has(question, "category") /\ Len(c1) < 4
              THEN Append(c1, Call("category_contrib_buyers",
                                   [NoParams EXCEPT !.dt = target_dt]))
              ELSE c1
    IN RulePlan(c2, a2, question)

\* the day-count branch of _plan_from_slots_rule
RuleDays(question, slots, assumptions0) ==
    LET intent == slots.intent
        days == IF slots.days.k = "int" THEN slots.days.n
                ELSE IF intent \in {"user_retention", "user_activity"}
                THEN DAYS_DEFAULT_RETENTION
                ELSE DAYS_DEFAULT_OVERVIEW
        a1 == IF slots.days.k = "int" THEN assumptions0
              ELSE Append(assumptions0, Note("days_missing_default", days, 0))
        d == _clamp_days(days)
        a2 == IF d # days THEN Append(a1, Note("days_clamped", 0, 0)) ELSE a1
    IN RulePlan(<<Call(intent, [NoParams EXCEPT !.days = IntV(d)])>>, a2, question)

\* a faulty variant: a range-style intent always gets its N-day call, the
\* day of the Slots is not looked at
_plan_from_slots_rule_by_days(question, slots) ==
    IF NSIsDict(slots.not_supported)
    THEN Plan(<<>>, <<>>, slots.assumptions, slots.not_supported)
    ELSE IF slots.intent \in TOOLS_NEED_DAYS
    THEN RuleDays(question, slots, slots.assumptions)
    ELSE Plan(<<>>, <<>>, slots.assumptions, "null")

_plan_from_slots_rule(question, slots) ==
    LET intent == slots.intent
        dt == slots.dt
        assumptions == slots.assumptions
        dt_first == Truthy(dt) /\ ~_has_range_words(question)
        a1 == IF dt_first THEN Append(assumptions, Note("use_dt_first", 0, 0))
              ELSE assumptions
    IN IF NSIsDict(slots.not_supported)
       THEN Plan(<<>>, <<>>, assumptions, slots.not_supported)
       ELSE IF dt_first /\ intent = "funnel_daily"
       THEN RulePlan(<<Call("funnel_daily",
                            [NoParams EXCEPT !.days = IntV(1), !.end_dt = dt])>>,
                     a1, question)
       ELSE IF dt_first /\ intent \in TOOLS_NEED_DAYS
       THEN RulePlan(<<Call("overview_day", [NoParams EXCEPT !.dt = dt])>>,
                     a1, question)
       ELSE IF intent = "diagnose_generic"
       THEN RuleDiagnose(question, slots, a1)
       ELSE IF intent = "unknown"
       THEN Plan(<<>>, <<>>, a1, "null")
       ELSE IF intent \in TOOLS_NEED_DT
       THEN LET target_dt == IF Truthy(dt) THEN dt ELSE _get_default_dt_safe
                a2 == IF Truthy(dt) THEN a1
                      ELSE Append(a1, Note("dt_missing_use_latest", 0, 0))
            IN RulePlan(<<Call(intent, [NoParams EXCEPT !.dt = target_dt])>>,
                        a2, question)
       ELSE IF intent \in TOOLS_NEED_DAYS
       THEN RuleDays(question, slots, a1)
       ELSE Plan(<<>>, <<>>, a1, "null")

----------------------------------------------------------------------------
(* The output of the external plan generator (json.loads of its text).
   k: "none" (no response: _call_llm_for_plan returns None), "notdict" (a JSON
   value that is no object, or the empty object) or "dict".  A call of the
   proposal is [isdict, tool, tool_key, params_kind, params]: params_kind is
   "dict", "none" (missing, null or empty) or "str" (a non-empty string);
   a missing or empty tool name is "".                                     *)

\* a tool name that is a JSON list: `x in frozenset` raises TypeError on it
UNHASHABLE == "<list>"

RawCall(tool, tool_key, params_kind, params) ==
    [isdict |-> TRUE, tool |-> tool, tool_key |-> tool_key,
     params_kind |-> params_kind, params |-> params]

NotDictCall ==
    [isdict |-> FALSE, tool |-> "", tool_key |-> "", params_kind |-> "none",
     params |-> NoParams]

NoAssumptions == [k |-> "none", days |-> Absent]

LlmPlan(ns, calls_is_list, calls, assumptions) ==
    [k |-> "dict", not_supported |-> ns, calls_is_list |-> calls_is_list,
     calls |-> calls, assumptions |-> assumptions]

NoResponse == [LlmPlan("null", FALSE, <<>>, NoAssumptions) EXCEPT !.k = "none"]
NotObject == [LlmPlan("null", FALSE, <<>>, NoAssumptions) EXCEPT !.k = "notdict"]

\* _normalize_llm_call(c); dict("abc") raises ValueError
_normalize_llm_call(c) ==
    LET tool == IF c.tool # "" THEN c.tool ELSE c.tool_key
    IN [raised |-> c.params_kind = "str",
        call |-> Call(tool, IF c.params_kind = "dict" THEN c.params ELSE NoParams)]

\* the loop over calls_raw of _validate_and_sanitize_llm_plan, from call i on:
\* "ok", "none" (return None) or "raise"
RECURSIVE ScanCalls(_, _)
ScanCalls(calls_raw, i) ==
    IF i > Len(calls_raw) THEN "ok"
    ELSE IF ~calls_raw[i].isdict THEN "none"
    ELSE LET nc == _normalize_llm_call(calls_raw[i])
         IN IF nc.raised THEN "raise"
            ELSE IF nc.call.tool_key = UNHASHABLE THEN "raise"
            ELSE IF nc.call.tool_key \notin TOOL_WHITELIST THEN "none"
            ELSE ScanCalls(calls_raw, i + 1)

\* the plan handed to validate_plan
PlanForVal(llm_plan) ==
    [calls |-> [i \in 1..Len(llm_plan.calls) |->
                  LET nc == _normalize_llm_call(llm_plan.calls[i]).call
                  IN [tool |-> nc.tool_key, params |-> nc.params]],
     assumptions |-> IF llm_plan.assumptions.k = "none"
                     THEN [k |-> "dict", days |-> Absent]
                     ELSE llm_plan.assumptions,
     not_supported |-> "null"]

\* the three calls a two-day diagnosis must open with
ExpectedDiagnose(dt, prev_dt) ==
    <<Call("overview_day", [NoParams EXCEPT !.dt = prev_dt]),
      Call("overview_day", [NoParams EXCEPT !.dt = dt]),
      Call("funnel_daily", [NoParams EXCEPT !.days = IntV(2), !.end_dt = dt])>>

\* got != need: the first three calls are not the expected ones
DeviatesFromTemplate(final_calls, expected) ==
    Len(final_calls) < 3 \/ SubSeq(final_calls, 1, 3) # expected

\* the "safety override" of the sanitizer
DiagnoseOverride(final_calls, slots) ==
    LET dt == slots.dt
        prev_dt == slots.prev_dt
        expected == ExpectedDiagnose(dt, prev_dt)
        cat == SelectSeq(final_calls,
                         LAMBDA c : c.tool_key = "category_contrib_buyers")
        extra == IF cat = <<>> THEN <<>>
                 ELSE <<[cat[1] EXCEPT !.params.dt = dt]>>
    IN IF /\ slots.intent = "diagnose_generic"
          /\ Truthy(prev_dt) /\ Truthy(dt) /\ prev_dt # dt
          /\ DeviatesFromTemplate(final_calls, expected)
       THEN expected \o extra
       ELSE final_calls

\* int(v) succeeds
IntParses(v) == v.k \in {"int", "numstr"}

\* the "days 1-90" loop of the sanitizer, on one call
ClampCallDays(c) ==
    IF NotNone(c.params.days) /\ IntParses(c.params.days)
    THEN [c EXCEPT !.params.days = IntV(Max(1, Min(90, c.params.days.n)))]
    ELSE c

\* the assumptions of the sanitized plan
SanitizedAssumptions(slots, validated) ==
    LET a == validated.assumptions
    IN IF a.k = "dict"
       THEN IF NotNone(a.days) /\ ~DaysTextIn(a.days.n, slots.assumptions)
            THEN Append(slots.assumptions, Note("days_default_llm", a.days.n, 0))
            ELSE slots.assumptions
       ELSE IF a.k = "list"
       THEN Append(slots.assumptions, Note("llm_note", 0, 0))
       ELSE slots.assumptions

\* the sanitizer gets as far as its call of validate_plan
ReachesValidator(llm_plan) ==
    /\ llm_plan.k = "dict"
    /\ ~(NSTruthy(llm_plan.not_supported) /\ NSIsDict(llm_plan.not_supported))
    /\ llm_plan.calls_is_list
    /\ ScanCalls(llm_plan.calls, 1) = "ok"

\* _validate_and_sanitize_llm_plan(llm_plan, question, slots):
\* [status, plan], status "plan", "none" (return None) or "raise"
_validate_and_sanitize_llm_plan(llm_plan, question, slots) ==
    LET none == [status |-> "none", plan |-> Plan(<<>>, <<>>, <<>>, "null")]
        raise == [status |-> "raise", plan |-> Plan(<<>>, <<>>, <<>>, "null")]
        scan == ScanCalls(llm_plan.calls, 1)
        v == validate_plan(PlanForVal(llm_plan), question)
        final0 == [i \in 1..Len(v.plan.calls) |->
                     Call(v.plan.calls[i].tool, v.plan.calls[i].params)]
        final1 == DiagnoseOverride(final0, slots)
        final_calls == [i \in 1..Len(final1) |-> ClampCallDays(final1[i])]
    IN IF llm_plan.k # "dict" THEN none
       ELSE IF NSTruthy(llm_plan.not_supported) /\ NSIsDict(llm_plan.not_supported)
       THEN [status |-> "plan",
             plan |-> Plan(<<>>, <<>>, slots.assumptions, llm_plan.not_supported)]
       ELSE IF ~llm_plan.calls_is_list THEN none
       ELSE IF scan # "ok" THEN [none EXCEPT !.status = scan]
       ELSE IF v.raised THEN raise
       ELSE IF v.errors # {} THEN none
       ELSE [status |-> "plan",
             plan |-> Plan(final_calls,
                           _add_plots_from_calls(final_calls, question),
                           SanitizedAssumptions(slots, v.plan),
                           "null")]

\* a faulty variant: no rule plan when the generator gives nothing usable
plan_from_slots_without_rule(question, slots, llm_plan) ==
    LET sanitized == _validate_and_sanitize_llm_plan(llm_plan, question, slots)
    IN IF llm_plan.k # "none" /\ sanitized.status # "none"
       THEN sanitized
       ELSE [status |-> "plan", plan |-> Plan(<<>>, <<>>, <<>>, "null")]

\* plan_from_slots(question, slots), llm_plan being what _call_llm_for_plan
\* returned: [status, plan], status "plan" or "raise"
plan_from_slots(question, slots, llm_plan) ==
    LET sanitized == _validate_and_sanitize_llm_plan(llm_plan, question, slots)
    IN IF llm_plan.k # "none" /\ sanitized.status # "none"
       THEN sanitized
       ELSE [status |-> "plan", plan |-> _plan_from_slots_rule(question, slots)]

----------------------------------------------------------------------------
(* orchestrator.py: run_tools *)

\* what _run_tool does on one call: a table with rows, an empty table, or an
\* exception (a timeout, a missing column, ...)
ToolOutcomes == {"rows", "empty", "raise"}

\* results[str(i)] for the call c
ToolResult(c, outcome) ==
    [tool_key |-> c.tool_key, params |-> c.params,
     ok |-> outcome = "rows",
     error |-> CASE outcome = "rows" -> "None"
                 [] outcome = "empty" -> "empty data"
                 [] OTHER -> "str(e)"]

\* a faulty variant: the first call whose tool raises ends the loop
run_tools_stopping_at_raise(calls, outcomes) ==
    LET ran == {i \in 1..Len(calls) : \A j \in 1..(i - 1) : outcomes[j] # "raise"}
    IN [key \in {ToStr(i - 1) : i \in ran} |->
           LET i == CHOOSE j \in ran : ToStr(j - 1) = key
           IN ToolResult(calls[i], outcomes[i])]

\* run_tools(calls), outcomes[i] being what _run_tool does on calls[i]:
\* the dict of the results, keyed by str(i) for the Python index i
run_tools(calls, outcomes) ==
    [key \in {ToStr(i - 1) : i \in 1..Len(calls)} |->
        LET i == CHOOSE j \in 1..Len(calls) : ToStr(j - 1) = key
        IN ToolResult(calls[i], outcomes[i])]

----------------------------------------------------------------------------
(* mapper.py.  A Slots record holds intent, dt, prev_dt, days, assumptions,
   not_supported and metric_focus ("none" for None or a missing key).  The
   session context is the record of the keys the orchestrator writes:
   last_dt, prev_dt, last_days, last_intent, last_tool_keys,
   last_metric_focus and last_answer_summary; of the summary the mapper
   reads whether it mentions "uv" / "访客" ("uv"), else "买家" ("buyers"). *)

REFERENCE_DATE == DateV(4)

INTENTS_NEED_DAYS ==
    {"overview_daily", "funnel_daily", "user_retention", "user_activity",
     "diagnose_generic"}

DEFAULT_METRIC_FOCUS == "uv_to_buyer"

\* f"2017-{mo:02d}-{d:02d}", as the digits of the year, the month and the day
Iso(mo, d) == <<2, 0, 1, 7, mo \div 10, mo % 10, d \div 10, d % 10>>

\* a faulty variant: compares the lengths of the strings
LexLeq_by_length(s, t) == Len(s) <= Len(t)

\* s <= t of two strings
RECURSIVE LexLeq(_, _)
LexLeq(s, t) ==
    IF s = <<>> THEN TRUE
    ELSE IF t = <<>> THEN FALSE
    ELSE IF Head(s) # Head(t) THEN Head(s) < Head(t)
    ELSE LexLeq(Tail(s), Tail(t))

\* the date value of an ISO string
DateOfIso(s) == DateV(Ord(s[5] * 10 + s[6], s[7] * 10 + s[8]))

NoSlots ==
    [intent |-> "unknown", dt |-> Null, prev_dt |-> Null, days |-> Null,
     assumptions |-> <<>>, not_supported |-> "null", metric_focus |-> "none"]

_fallback_normalize(question) ==
    LET spans == {tok \in question : tok.t = "span"}
        sp == CHOOSE tok \in spans : TRUE
        m1 == SpanM1(sp)
        d1 == SpanD1(sp)
        m2 == IF SpanM2(sp) # 0 THEN SpanM2(sp) ELSE m1
        d2 == SpanD2(sp)
        \* both range patterns demand valid months and days
        range_ok == spans # {} /\ ValidMD(m1, d1) /\ ValidMD(m2, d2)
        dt1 == Iso(m1, d1)
        dt2 == Iso(m2, d2)
        \* "M月D日到M月D日" compares the strings, "M月D日到D日" the days
        in_order == IF SpanM2(sp) # 0 THEN LexLeq(dt1, dt2) ELSE d1 <= d2
        dates == {tok \in question : tok.t = "date"}
        lasts == {tok \in question : tok.t = "lastdays"}
        \* the first "M月D日" of the text, when no range was taken
        single_ok == spans # {} /\ ~range_ok /\ dates = {} /\ ValidMD(m1, d1)
        dt == IF range_ok THEN DateOfIso(IF in_order THEN dt2 ELSE dt1)
              ELSE IF dates # {} THEN DateV((CHOOSE tok \in dates : TRUE).n)
              ELSE IF single_ok THEN DateOfIso(dt1)
              ELSE IF Has(question, "yesterday") THEN DateV(REFERENCE_DATE.n - 1)
              ELSE Null
        days == IF lasts # {}
                THEN IntV(Min((CHOOSE tok \in lasts : TRUE).n, 90))
                ELSE IF Has(question, "one_week") THEN IntV(7)
                ELSE Null
    IN  [dt |-> dt,
         days |-> days,
         prev_dt |-> IF range_ok THEN DateOfIso(IF in_order THEN dt1 ELSE dt2)
                     ELSE Null,
         assumptions |-> IF range_ok \/ single_ok
                         THEN <<Note("year_default", 0, 0)>> ELSE <<>>]

\* the words that make a buyer-count question a diagnosis
BuyerDiagnosisWords == {"why", "decline", "dropped"}

_fallback_map(question) ==
    LET n == _fallback_normalize(question)
        q == question
        has_dt == Truthy(n.dt)
        overview == IF has_dt THEN "overview_day" ELSE "overview_daily"
        unsupported == <<"unknown", "slots_dict">>
        decided ==
            IF Has(q, "gmv") THEN unsupported
            ELSE IF Has(q, "new_user") /\ HasAny(q, {"conv_rate", "conversion"})
            THEN unsupported
            ELSE IF Has(q, "buyer_count") /\ ~Has(q, "core_metrics")
            THEN IF Has(q, "uv") THEN <<overview, "null">>
                 ELSE IF HasAny(q, BuyerDiagnosisWords)
                 THEN <<"diagnose_generic", "null">>
                 ELSE unsupported
            ELSE IF Has(q, "dau") THEN unsupported
            ELSE IF Has(q, "retention_rate") THEN unsupported
            ELSE IF Has(q, "why")
                    \/ (HasAny(q, {"decline", "dropped"}) /\ ~Has(q, "category"))
            THEN <<"diagnose_generic", "null">>
            ELSE IF HasAny(q, {"which_categories", "drag", "category"})
            THEN <<"category_contrib_buyers", "null">>
            ELSE IF Has(q, "retention") THEN <<"user_retention", "null">>
            ELSE IF Has(q, "dau") THEN <<"user_activity", "null">>
            ELSE IF Has(q, "new_user") THEN <<"new_vs_old_user_conversion", "null">>
            ELSE IF Has(q, "funnel") THEN <<"funnel_daily", "null">>
            ELSE IF Has(q, "conversion") THEN <<"funnel_daily", "null">>
            ELSE IF Has(q, "core_metrics") THEN <<overview, "null">>
            ELSE IF Has(q, "uv") /\ (has_dt \/ Has(q, "day") \/ Has(q, "month"))
            THEN <<overview, "null">>
            ELSE IF HasAny(q, {"recent", "near"})
            THEN <<IF HasAny(q, {"funnel", "conversion"})
                   THEN "funnel_daily" ELSE "overview_daily", "null">>
            ELSE IF Has(q, "how_is") /\ TextLen(q) <= 25 THEN <<overview, "null">>
            ELSE <<"unknown", "null">>
        intent == decided[1]
        default_days == intent = "diagnose_generic" /\ n.dt = Null /\ n.days = Null
    IN  [intent |-> intent,
         dt |-> n.dt,
         prev_dt |-> n.prev_dt,
         days |-> IF default_days THEN IntV(9) ELSE n.days,
         assumptions |-> IF default_days
                         THEN Append(n.assumptions, Note("fallback_diag_days", 9, 0))
                         ELSE n.assumptions,
         not_supported |-> decided[2],
         metric_focus |-> "none"]

\* any(k in q for k in ["买家", "uv", "UV", "转化率", "转化", "加购"])
_question_specifies_metric(question) ==
    HasAny(question, {"buyer", "uv", "conv_rate", "conversion"})

_override_complex_to_diagnose(result, question) ==
    LET has_observation == HasAny(question, {"dropped", "why"})
        has_category_ask == HasAny(question, {"which_category", "which_categories", "drag"})
        is_pure_category ==
            Has(question, "which_categories") /\ Has(question, "caused")
            /\ ~HasAny(question, {"why", "dropped"})
    IN  IF NSTruthy(result.not_supported) THEN result
        ELSE IF has_observation /\ has_category_ask /\ ~is_pure_category
                /\ result.intent = "category_contrib_buyers"
        THEN [result EXCEPT !.intent = "diagnose_generic",
                            !.days = IF @ = Null THEN IntV(9) ELSE @]
        ELSE result

_override_not_supported_if_needed(result, question) ==
    LET q == question
        unsupported == [result EXCEPT !.intent = "unknown",
                                      !.not_supported = "slots_dict"]
    IN  IF Has(q, "new_user") /\ HasAny(q, {"conv_rate", "conversion"})
        THEN unsupported
        ELSE IF Has(q, "buyer_count") /\ ~Has(q, "core_metrics")
        THEN IF Has(q, "uv")
             THEN [result EXCEPT !.intent = IF Truthy(result.dt) THEN "overview_day"
                                            ELSE "overview_daily"]
             ELSE unsupported
        ELSE IF Has(q, "dau") THEN unsupported
        ELSE IF Has(q, "retention_rate") THEN unsupported
        ELSE result

NoSession ==
    [last_dt |-> Null, prev_dt |-> Null, last_days |-> Null,
     last_intent |-> "none", last_tool_keys |-> {},
     last_metric_focus |-> "none", last_answer_summary |-> "none"]

\* the metric a note about metric_focus names
FocusNum(focus) ==
    CASE focus = "uv_to_buyer" -> 0
      [] focus = "uv" -> 1
      [] OTHER -> 2

_apply_session_ctx(result, question, session_ctx) ==
    LET recall_dt == result.dt = Null /\ Truthy(session_ctx.last_dt)
        r1 == IF recall_dt THEN [result EXCEPT !.dt = session_ctx.last_dt] ELSE result
        a1 == IF recall_dt
              THEN Append(result.assumptions, Note("recall_dt", r1.dt.n, 0))
              ELSE result.assumptions
        r2 == IF r1.prev_dt = Null /\ Truthy(session_ctx.prev_dt)
              THEN [r1 EXCEPT !.prev_dt = session_ctx.prev_dt] ELSE r1
        need_days == r2.days = Null /\ r2.intent \in INTENTS_NEED_DAYS
                     /\ ~Truthy(r2.prev_dt)
        recall_days == need_days /\ session_ctx.last_days # Null
        default_days == need_days /\ ~recall_days /\ r2.intent = "diagnose_generic"
        days == IF recall_days THEN IntV(Max(1, Min(90, session_ctx.last_days.n)))
                ELSE IF default_days THEN IntV(9)
                ELSE r2.days
        a2 == IF recall_days THEN Append(a1, Note("recall_days", days.n, 0))
              ELSE IF default_days THEN Append(a1, Note("diag_days_default", 9, 0))
              ELSE a1
        set_focus == r2.intent = "diagnose_generic"
                     /\ ~_question_specifies_metric(question)
        last == session_ctx.last_metric_focus
        prev == IF last # "none" THEN last
                ELSE IF Has(question, "decline")
                        /\ session_ctx.last_answer_summary \in {"uv", "buyers"}
                THEN session_ctx.last_answer_summary
                ELSE "none"
        focus == IF prev # "none" THEN prev ELSE DEFAULT_METRIC_FOCUS
        a3 == IF set_focus
              THEN Append(a2, Note(IF prev # "none" THEN "focus_recalled"
                                   ELSE "focus_default", FocusNum(focus), 0))
              ELSE a2
    IN  [r2 EXCEPT !.days = days,
                   !.metric_focus = IF set_focus THEN focus ELSE @,
                   !.assumptions = a3]

\* The object json.loads makes of the classifier's text: k is "none" when
\* the call failed, timed out, or its text is empty or no JSON object.
\* dt of kind "emptystr" is "" or "null"; days of kind "inf" is the float
\* json.loads makes of 1e999; assumptions is "none" (no list) or "list";
\* notes are the strings of the list.
NoClassification ==
    [k |-> "none", intent |-> "unknown", dt |-> Null, days |-> Null,
     assumptions |-> "none", notes |-> <<>>, not_supported |-> "null"]

\* a faulty variant: no early return for the empty question, every question
\* goes through the rule fallback
map_query_without_empty_check(question, session_ctx, obj) ==
    [raised |-> FALSE,
     slots |-> _apply_session_ctx(
                   _override_complex_to_diagnose(_fallback_map(question), question),
                   question, session_ctx)]

\* map_query(question, session_ctx), the classifier having answered obj;
\* raised: int(days) raises OverflowError, which map_query does not catch
map_query(question, session_ctx, obj) ==
    IF question = {} THEN [raised |-> FALSE, slots |-> NoSlots]
    ELSE IF obj.k = "none"
    THEN [raised |-> FALSE,
          slots |-> _apply_session_ctx(
                        _override_complex_to_diagnose(_fallback_map(question), question),
                        question, session_ctx)]
    ELSE IF obj.days.k = "inf" THEN [raised |-> TRUE, slots |-> NoSlots]
    ELSE
    LET intent == IF obj.intent \in INTENTS THEN obj.intent ELSE "unknown"
        \* str(dt) of a number that is not 0 is a string of digits
        dt == IF obj.dt.k = "emptystr" \/ ~Truthy(obj.dt) THEN Null
              ELSE IF obj.dt.k = "int" THEN NumStr(obj.dt.n)
              ELSE obj.dt
        days == IF NotNone(obj.days) /\ IntParses(obj.days)
                THEN IntV(Max(1, Min(90, obj.days.n)))
                ELSE Null
        assumptions == IF obj.assumptions = "list" THEN obj.notes ELSE <<>>
        not_supported == IF NSIsDict(obj.not_supported) THEN obj.not_supported
                         ELSE "null"
        n == _fallback_normalize(question)
        noted == \E i \in 1..Len(assumptions) : assumptions[i].tag = "year_default"
        out == [intent |-> intent, dt |-> dt, days |-> days,
                prev_dt |-> n.prev_dt,
                assumptions |-> IF Truthy(n.prev_dt) /\ ~noted
                                THEN Append(assumptions, Note("year_default", 0, 0))
                                ELSE assumptions,
                not_supported |-> not_supported,
                metric_focus |-> "none"]
    IN  [raised |-> FALSE,
         slots |-> _apply_session_ctx(
                       _override_complex_to_diagnose(
                           _override_not_supported_if_needed(out, question), question),
                       question, session_ctx)]

----------------------------------------------------------------------------
(* memory.py: the session store.  A JSON object is a function from its
   keys; a value of it is a leaf (a number) or a nested object.  json.dumps
   and json.loads keep objects of string keys, numbers and nested objects
   as they are, so the row holds the object itself. *)

Leaf(n) == [dict |-> FALSE, n |-> n, obj |-> <<>>]
Dict(o) == [dict |-> TRUE, n |-> 0, obj |-> o]
\* {}
EmptyObj == <<>>

\* SESSION_TTL_SEC = 24 * 3600
SESSION_TTL_SEC == 24 * 3600

\* a faulty variant: the patch replaces a nested object instead of being
\* merged into it
_deep_merge_shallow(base, patch) ==
    [k \in DOMAIN base \cup DOMAIN patch |->
        IF k \in DOMAIN patch THEN patch[k] ELSE base[k]]

\* _deep_merge(base, patch)
RECURSIVE _deep_merge(_, _)
_deep_merge(base, patch) ==
    [k \in DOMAIN base \cup DOMAIN patch |->
        IF k \notin DOMAIN patch THEN base[k]
        ELSE IF k \in DOMAIN base /\ base[k].dict /\ patch[k].dict
        THEN Dict(_deep_merge(base[k].obj, patch[k].obj))
        ELSE patch[k]]

\* the row of the session in the table sessions
NoRow == [present |-> FALSE, data |-> EmptyObj, updated_at |-> 0]
Row(data, updated_at) == [present |-> TRUE, data |-> data, updated_at |-> updated_at]

\* update_session, the SELECT: existing
ReadExisting(row) == IF row.present THEN row.data ELSE EmptyObj

\* a faulty variant: the row keeps the time of its first write
update_session_keeping_clock(row, patch, time) ==
    Row(_deep_merge(ReadExisting(row), patch),
        IF row.present THEN row.updated_at ELSE time)

\* update_session(session_id, patch) at the time time.time() gives: the row
\* it leaves
update_session(row, patch, time) ==
    Row(_deep_merge(ReadExisting(row), patch), time)

\* time.time() - updated_at > SESSION_TTL_SEC
Expired(row, time) == time - row.updated_at > SESSION_TTL_SEC

\* get_session(session_id) at the time given: the dict it returns and the
\* row it leaves (an expired row is deleted)
get_session(row, time) ==
    IF ~row.present THEN [data |-> EmptyObj, row |-> row]
    ELSE IF Expired(row, time) THEN [data |-> EmptyObj, row |-> NoRow]
    ELSE [data |-> row.data, row |-> row]

----------------------------------------------------------------------------
(* Inputs *)

SlotDays == {Null, IntV(DAYS_MIN - 1), IntV(DAYS_DEFAULT_RETENTION), IntV(DAYS_MAX + 1)}

OptDates == {Null} \cup {DateV(d) : d \in Dates}

\* the note the mapper leaves when it recalls the day count of the session
SlotAssumptions(days) ==
    IF days.k = "int" /\ days.n \in DAYS_MIN..DAYS_MAX
    THEN {<<>>, <<Note("recall_days", days.n, 0)>>}
    ELSE {<<>>}

\* the Slots records of map_query the planner is run on
SlotsDomain ==
    {[intent |-> i, dt |-> dt, prev_dt |-> pd, days |-> dy, assumptions |-> a,
      not_supported |-> ns] :
        i \in INTENTS, dt \in OptDates, pd \in OptDates, dy \in SlotDays,
        a \in {<<>>, <<Note("recall_days", DAYS_DEFAULT_RETENTION, 0)>>},
        ns \in {"null", "slots_dict"}}

\* the planner reads prev_dt under intent diagnose_generic only: the other
\* intents are run without one
SlotsInputs ==
    {s \in SlotsDomain :
        /\ s.assumptions \in SlotAssumptions(s.days)
        /\ s.intent # "diagnose_generic" => s.prev_dt = Null}

\* single calls of a proposal
LlmCalls ==
    {NotDictCall,
     RawCall("drop_table", "", "none", NoParams),
     RawCall(UNHASHABLE, "", "none", NoParams),
     RawCall("overview_daily", "", "str", NoParams),
     RawCall("funnel_daily", "", "none", NoParams),
     RawCall("", "category_contrib_buyers", "none", NoParams),
     RawCall("new_vs_old_user_conversion", "", "dict",
             [NoParams EXCEPT !.dt = DateTimeV(1)]),
     RawCall("overview_daily", "", "dict",
             [NoParams EXCEPT !.start = DateV(1), !.end = DateV(MaxDate - 1)]),
     RawCall("user_activity", "", "dict",
             [NoParams EXCEPT !.start = IntV(1), !.end = IntV(MaxDate)])}
    \cup {RawCall("overview_day", "", "dict", [NoParams EXCEPT !.dt = DateV(d)]) :
            d \in Dates}
    \cup {RawCall("user_retention", "", "dict", [NoParams EXCEPT !.days = v]) :
            v \in {Null, IntV(0), IntV(DAYS_MAX + 1), NumStr(DAYS_MAX + 1), BadStr}}
    \cup {RawCall("funnel_daily", "", "dict",
                  [NoParams EXCEPT !.days = IntV(1), !.end_dt = DateV(d)]) :
            d \in Dates}

\* calls of the two-call proposals
MixCalls ==
    {RawCall("overview_day", "", "dict", [NoParams EXCEPT !.dt = DateV(1)]),
     RawCall("funnel_daily", "", "none", NoParams),
     RawCall("category_contrib_buyers", "", "none", NoParams)}

\* calls a proposal holds after the diagnosis template
TailCalls ==
    {RawCall("category_contrib_buyers", "", "dict", [NoParams EXCEPT !.dt = DateV(1)]),
     RawCall("overview_daily", "", "dict", [NoParams EXCEPT !.days = IntV(DAYS_MAX + 1)])}

SeqsUpTo(S, n) == UNION {[1..m -> S] : m \in 0..n}

AsRaw(c) == RawCall(c.tool, "", "dict", c.params)

\* the proposals that open with the template of a two-day diagnosis
TemplateProposals(slots) ==
    IF slots.intent = "diagnose_generic" /\ Truthy(slots.dt) /\ Truthy(slots.prev_dt)
       /\ slots.dt # slots.prev_dt
    THEN LET e == ExpectedDiagnose(slots.dt, slots.prev_dt)
             pre == [i \in 1..3 |-> AsRaw(e[i])]
         IN {LlmPlan("null", TRUE, pre \o tail, NoAssumptions) :
                tail \in SeqsUpTo(TailCalls, MaxTail)}
    ELSE {}

LlmAssumptionVals ==
    {[k |-> "dict", days |-> Absent], [k |-> "dict", days |-> IntV(DAYS_DEFAULT_RETENTION)],
     [k |-> "list", days |-> Absent], [k |-> "str", days |-> Absent]}

\* what the external plan generator may answer for these slots
LlmOutputs(slots) ==
    {NoResponse, NotObject,
     LlmPlan("null", FALSE, <<>>, NoAssumptions),
     LlmPlan("llm_dict", FALSE, <<>>, NoAssumptions),
     LlmPlan("llm_dict", TRUE, <<RawCall("drop_table", "", "none", NoParams)>>,
             NoAssumptions),
     LlmPlan("str", TRUE, <<>>, NoAssumptions),
     LlmPlan("null", TRUE, <<>>, NoAssumptions)}
    \cup {LlmPlan("null", TRUE, <<c>>, NoAssumptions) : c \in LlmCalls}
    \cup {LlmPlan("null", TRUE, <<c1, c2>>, NoAssumptions) : c1, c2 \in MixCalls}
    \cup {LlmPlan("null", TRUE, <<RawCall("funnel_daily", "", "none", NoParams)>>, a) :
            a \in LlmAssumptionVals}
    \cup TemplateProposals(slots)

\* the outcomes of the tools over n calls, at most MaxFail of them failing
OutcomesOf(n) ==
    {f \in [1..n -> ToolOutcomes] :
        Cardinality({i \in 1..n : f[i] # "rows"}) <= MaxFail}

\* the range phrases: both months written (September, of one digit, or
\* December) with days of the data set, or one month and a second day that may
\* be 0 (which no pattern accepts as a day)
SpanToks ==
    {SpanTok(m1, d1, m2, d2) : m1 \in {9, 12}, d1 \in Dates, m2 \in {9, 12}, d2 \in Dates}
    \cup {SpanTok(12, d1, 0, d2) : d1 \in Dates, d2 \in 0..MaxDate}

\* "最近0天", "最近7天", "最近100天"
LastDaysToks == {LastDaysTok(N) : N \in {0, 7, 100}}

MTokens ==
    QTokens \cup SpanToks \cup LastDaysToks \cup {YesterdayTok}
    \cup {WordTok(w) : w \in Words}

\* The questions map_query is run on.  The text holds at most one date or
\* range phrase and at most one "最近N天", so that the first match of a
\* regular expression does not depend on the order of the phrases.
RECURSIVE SubsetsUpTo(_, _)
SubsetsUpTo(S, n) ==
    IF n = 0 THEN {{}}
    ELSE LET smaller == SubsetsUpTo(S, n - 1)
         IN smaller \cup {q \cup {tok} : q \in smaller, tok \in S}

MapperQuestions ==
    {q \in SubsetsUpTo(MTokens, MaxWords) :
        /\ Cardinality(q) <= MaxWords
        /\ Cardinality({tok \in q : tok.t \in {"date", "span"}}) <= 1
        /\ Cardinality({tok \in q : tok.t = "lastdays"}) <= 1}

Classified(intent, dt, days, ns) ==
    [k |-> "dict", intent |-> intent, dt |-> dt, days |-> days,
     assumptions |-> "list", notes |-> <<>>, not_supported |-> ns]

EmptyStr == [k |-> "emptystr", n |-> 0]
Infinity == [k |-> "inf", n |-> 0]

\* what the classifier may answer: nothing usable, every intent (and a word
\* that is no intent) with no other slot, and one slot of each shape
ClassifierOutputs ==
    {NoClassification}
    \cup {Classified(i, Null, Null, "null") : i \in INTENTS \cup {"bogus"}}
    \cup {Classified("overview_day", dt, Null, "null") :
            dt \in {DateV(d) : d \in Dates} \cup {EmptyStr, IntV(0), IntV(1)}}
    \cup {Classified("overview_daily", Null, dy, "null") :
            dy \in {IntV(0), IntV(DAYS_DEFAULT_RETENTION), IntV(DAYS_MAX + 1),
                    NumStr(DAYS_DEFAULT_RETENTION), BadStr, Infinity}}
    \cup {Classified("unknown", Null, Null, ns) : ns \in {"slots_dict", "empty_dict", "str"}}
    \cup {[Classified("diagnose_generic", Null, Null, "null") EXCEPT !.assumptions = "none"],
          [Classified("diagnose_generic", Null, Null, "null")
               EXCEPT !.notes = <<Note("classifier_note", 0, 0)>>]}

\* the session contexts map_query is run on: what _save_session_memory has
\* written after a single-day overview, after a second one of another day,
\* after a trend question, after a diagnosis, and after two single-day
\* overviews followed by a question that was not supported
SessionCtxs ==
    {NoSession}
    \cup {[NoSession EXCEPT !.last_dt = DateV(d), !.last_intent = "overview_day",
                            !.last_tool_keys = {"overview_day"},
                            !.last_answer_summary = s] :
            d \in Dates, s \in {"other", "uv", "buyers"}}
    \cup {[NoSession EXCEPT !.last_dt = DateV(dp[1]), !.prev_dt = DateV(dp[2]),
                            !.last_intent = "overview_day",
                            !.last_tool_keys = {"overview_day"},
                            !.last_answer_summary = "other"] :
            dp \in {x \in Dates \X Dates : x[1] # x[2]}}
    \cup {[NoSession EXCEPT !.last_dt = DateV(dp[1]), !.prev_dt = DateV(dp[2]),
                            !.last_intent = "unknown",
                            !.last_answer_summary = "other"] :
            dp \in {x \in Dates \X Dates : x[1] # x[2]}}
    \cup {[NoSession EXCEPT !.last_days = IntV(n), !.last_intent = "overview_daily",
                            !.last_tool_keys = {"overview_daily"},
                            !.last_answer_summary = "other"] :
            n \in {0, DAYS_DEFAULT_RETENTION}}
    \cup {[NoSession EXCEPT !.last_days = IntV(DEFAULT_DAYS),
                            !.last_intent = "diagnose_generic",
                            !.last_tool_keys = {"overview_daily", "funnel_daily"},
                            !.last_metric_focus = DEFAULT_METRIC_FOCUS,
                            !.last_answer_summary = s] :
            s \in {"other", "uv", "buyers"}}

\* the questions of a session: none, the core metrics of a day, why a drop
SessionQuestions ==
    {{}, {WordTok("why")}}
    \cup {{DateTok(d), WordTok("core_metrics")} : d \in Dates}

\* what the classifier answers in a session
SessionClassifierOutputs ==
    {NoClassification, Classified("overview_day", Null, Null, "null"),
     Classified("diagnose_generic", Null, Null, "null")}

\* what the generator answers in the turn whose end is checked: nothing (the
\* call failed or timed out), no object, or an object with no calls
TurnGeneratorOutputs ==
    {NoResponse, NotObject, LlmPlan("null", TRUE, <<>>, NoAssumptions)}

\* what the summary of the answer mentions
Summaries == {"other", "uv", "buyers"}

\* the JSON objects over the keys K with values of V
ObjectsOver(K, V) == UNION {[S -> V] : S \in SUBSET K}
\* the keys of the objects written: two of a session or profile, and two of
\* a nested object ("preferences": {"days": .., "lang": ..})
TopKeys == {"count", "preferences"}
NestedKeys == {"days", "lang"}
LeafValues == {Leaf(n) : n \in 1..MaxLeaf}
NestedObjects == ObjectsOver(NestedKeys, LeafValues)
\* the patches of update_session: the empty one, one key with a leaf or with
\* a nested object, and both keys with leaves
Patches ==
    ObjectsOver({"count"}, LeafValues)
    \cup [{"preferences"} -> LeafValues \cup {Dict(o) : o \in NestedObjects}]
    \cup [TopKeys -> LeafValues]
\* what the clock advances by between two calls
ClockSteps == {1, SESSION_TTL_SEC}
\* the processes that update one session at the same time
Procs == {1, 2}

----------------------------------------------------------------------------
(* orchestrator.py: _save_session_memory, with update_session of memory.py
   merging the patch into the stored session *)

\* a faulty variant: the day of the turn before is not kept
_save_session_memory_without_prev(prev, slots, plan, summary) ==
    [last_dt |-> IF Truthy(slots.dt) THEN slots.dt ELSE prev.last_dt,
     prev_dt |-> prev.prev_dt,
     last_days |-> IF slots.days # Null THEN slots.days ELSE prev.last_days,
     last_intent |-> slots.intent,
     last_tool_keys |-> {plan.calls[i].tool_key : i \in 1..Len(plan.calls)},
     last_metric_focus |-> IF slots.metric_focus # "none" THEN slots.metric_focus
                           ELSE prev.last_metric_focus,
     last_answer_summary |-> summary]

\* the session after the turn whose slots and plan are given; prev is
\* get_session(session_id)
_save_session_memory(prev, slots, plan, summary) ==
    LET old_dt == prev.last_dt
        carries == /\ Truthy(slots.dt)
                   /\ Truthy(old_dt) /\ old_dt # slots.dt
                   /\ \/ prev.last_intent = "overview_day"
                      \/ "overview_day" \in prev.last_tool_keys
        tool_keys == {plan.calls[i].tool_key : i \in 1..Len(plan.calls)}
    IN  [last_dt |-> IF Truthy(slots.dt) THEN slots.dt ELSE prev.last_dt,
         prev_dt |-> IF carries THEN old_dt ELSE prev.prev_dt,
         last_days |-> IF slots.days # Null THEN slots.days ELSE prev.last_days,
         last_intent |-> slots.intent,
         last_tool_keys |-> tool_keys,
         last_metric_focus |-> IF slots.metric_focus # "none" THEN slots.metric_focus
                               ELSE prev.last_metric_focus,
         last_answer_summary |-> summary]

----------------------------------------------------------------------------
(* The pipeline of one question: answer() of orchestrator.py runs map_query
   on the question and the session context, plan_from_slots on the slots
   of the mapper, then run_tools on the calls of the plan, and saves the
   session.  Spec starts at plan_from_slots, on any slots; MapperSpec runs
   map_query alone, on any question and context; SessionSpec runs the turns
   of one session from its first question.                                 *)

VARIABLES question, slots, llm_plan, pc, plan, validation, results,
          session, classifier, classifier_calls, generator_calls, turn,
          db, now, got, log, hist, procs

\* the variables of the pipeline
pipevars == <<question, slots, llm_plan, pc, plan, validation, results,
              session, classifier, classifier_calls, generator_calls, turn>>
\* the variables of the session store
memvars == <<db, now, got, log, hist, procs>>

vars == <<question, slots, llm_plan, pc, plan, validation, results,
          session, classifier, classifier_calls, generator_calls, turn,
          db, now, got, log, hist, procs>>

NoPlan == Plan(<<>>, <<>>, <<>>, "null")

\* validate_plan was not called
NotValidated == [ran |-> FALSE, raised |-> FALSE, errors |-> {}]

\* what the call of validate_plan in the sanitizer gave
ValidationOf(q, lp) ==
    IF ReachesValidator(lp)
    THEN LET v == validate_plan(PlanForVal(lp), q)
         IN [ran |-> TRUE, raised |-> v.raised, errors |-> v.errors]
    ELSE NotValidated

\* no call of get_session so far
NotRead == [called |-> FALSE, data |-> EmptyObj]
\* a process outside update_session
Outside == [pc |-> "idle", existing |-> EmptyObj, patch |-> EmptyObj]
\* nothing written so far
NoHistory == [last_write |-> -1, stored |-> EmptyObj, fresh_from |-> 1, ticks |-> 0]

\* the session store untouched
MemIdle ==
    /\ db = NoRow
    /\ now = 0
    /\ got = NotRead
    /\ log = <<>>
    /\ hist = NoHistory
    /\ procs = [p \in Procs |-> Outside]


\* no session, and no call of the classifier or the generator so far
Fresh ==
    /\ session = NoSession
    /\ classifier = NoClassification
    /\ classifier_calls = 0
    /\ generator_calls = 0
    /\ turn = 0

Init ==
    /\ question \in Questions
    /\ slots \in SlotsInputs
    /\ llm_plan = NoResponse
    /\ pc = "start"
    /\ plan = NoPlan
    /\ validation = NotValidated
    /\ results = <<>>
    /\ Fresh
    /\ MemIdle

\* a caller asks a question of the session: answer(question, session_ctx =
\* get_session(session_id), session_id)
Ask ==
    /\ pc \in {"idle", "saved"}
    /\ turn < MaxTurns
    /\ question' \in SessionQuestions
    /\ turn' = turn + 1
    /\ pc' = "asked"
    /\ slots' = NoSlots
    /\ plan' = NoPlan
    /\ classifier_calls' = 0
    /\ generator_calls' = 0
    /\ UNCHANGED <<llm_plan, validation, results, session, classifier>>
    /\ UNCHANGED memvars

\* _call_llm and _parse_json: the one call of the classifier, which
\* map_query makes for a question that is not empty
CallLlm(outputs) ==
    /\ pc = "asked"
    /\ question # {}
    /\ \E obj \in outputs : classifier' = obj
    /\ classifier_calls' = classifier_calls + 1
    /\ pc' = "classified"
    /\ UNCHANGED <<question, slots, llm_plan, plan, validation, results,
                   session, generator_calls, turn>>
    /\ UNCHANGED memvars

\* the rest of map_query
MapQuery ==
    /\ \/ pc = "classified"
       \/ pc = "asked" /\ question = {}
    /\ LET r == map_query(question, session, classifier)
       IN /\ pc' = IF r.raised THEN "raised" ELSE "start"
          /\ slots' = r.slots
    /\ UNCHANGED <<question, llm_plan, plan, validation, results, session,
                   classifier, classifier_calls, generator_calls, turn>>
    /\ UNCHANGED memvars

\* _call_llm_for_plan: the one call of the external generator
CallLlmForPlan(outputs) ==
    /\ pc = "start"
    /\ \E out \in outputs : llm_plan' = out
    /\ generator_calls' = generator_calls + 1
    /\ pc' = "llm_returned"
    /\ UNCHANGED <<question, slots, plan, validation, results, session,
                   classifier, classifier_calls, turn>>
    /\ UNCHANGED memvars

\* the rest of plan_from_slots: the sanitizer, and the rule on its refusal
PlanFromSlots ==
    /\ pc = "llm_returned"
    /\ LET r == plan_from_slots(question, slots, llm_plan)
       IN /\ pc' = IF r.status = "raise" THEN "raised" ELSE "planned"
          /\ plan' = r.plan
    /\ validation' = ValidationOf(question, llm_plan)
    /\ UNCHANGED <<question, slots, llm_plan, results, session, classifier,
                   classifier_calls, generator_calls, turn>>
    /\ UNCHANGED memvars

\* answer() hands the calls of a plan that has some to run_tools; the
\* response of the generator was a local of plan_from_slots
RunTools ==
    /\ pc = "planned"
    /\ ~NSTruthy(plan.not_supported)
    /\ plan.calls # <<>>
    /\ \E outcomes \in OutcomesOf(Len(plan.calls)) :
          results' = run_tools(plan.calls, outcomes)
    /\ llm_plan' = NoResponse
    /\ pc' = "executed"
    /\ UNCHANGED <<question, slots, plan, validation, session, classifier,
                   classifier_calls, generator_calls, turn>>
    /\ UNCHANGED memvars

\* The end of answer(): the narrator has written its answer, whose summary
\* mentions some metric, and the session is saved; a plan that is not
\* supported is saved without its calls.  The answers of the classifier and
\* of the generator and the results were locals of the turn.
SaveSessionMemory ==
    /\ \/ pc = "executed"
       \/ pc = "planned" /\ (NSTruthy(plan.not_supported) \/ plan.calls = <<>>)
    /\ turn > 0
    /\ \E summary \in Summaries :
          session' = _save_session_memory(
                         session, slots,
                         IF NSTruthy(plan.not_supported)
                         THEN [plan EXCEPT !.calls = <<>>, !.plots = <<>>] ELSE plan,
                         summary)
    /\ llm_plan' = NoResponse
    /\ classifier' = NoClassification
    /\ validation' = NotValidated
    /\ results' = <<>>
    /\ pc' = "saved"
    /\ UNCHANGED <<question, slots, plan, classifier_calls, generator_calls, turn>>
    /\ UNCHANGED memvars

Next == CallLlmForPlan(LlmOutputs(slots)) \/ PlanFromSlots \/ RunTools

Spec == Init /\ [][Next]_vars

\* map_query alone
InitMapper ==
    /\ question \in MapperQuestions
    /\ session \in SessionCtxs
    /\ slots = NoSlots
    /\ llm_plan = NoResponse
    /\ pc = "asked"
    /\ plan = NoPlan
    /\ validation = NotValidated
    /\ results = <<>>
    /\ classifier = NoClassification
    /\ classifier_calls = 0
    /\ generator_calls = 0
    /\ turn = 0
    /\ MemIdle

NextMapper == CallLlm(ClassifierOutputs) \/ MapQuery

MapperSpec == InitMapper /\ [][NextMapper]_vars

\* the turns of a session
InitSession ==
    /\ question = {}
    /\ slots = NoSlots
    /\ llm_plan = NoResponse
    /\ pc = "idle"
    /\ plan = NoPlan
    /\ validation = NotValidated
    /\ results = <<>>
    /\ Fresh
    /\ MemIdle

NextSession ==
    \/ Ask
    \/ CallLlm(SessionClassifierOutputs)
    \/ MapQuery
    \/ CallLlmForPlan(LlmOutputs(slots))
    \/ PlanFromSlots
    \/ RunTools
    \/ SaveSessionMemory

SessionSpec == InitSession /\ [][NextSession]_vars

\* answer() on one question of a session.  It is straight-line code: the
\* calls of the classifier and of the generator return or fail (_call_llm and
\* _call_llm_for_plan catch every exception), and each step runs when the one
\* before it has returned.
InitTurn ==
    /\ question \in SessionQuestions
    /\ session \in SessionCtxs
    /\ slots = NoSlots
    /\ llm_plan = NoResponse
    /\ pc = "asked"
    /\ plan = NoPlan
    /\ validation = NotValidated
    /\ results = <<>>
    /\ classifier = NoClassification
    /\ classifier_calls = 0
    /\ generator_calls = 0
    /\ turn = 1
    /\ MemIdle

NextTurn ==
    \/ CallLlm(SessionClassifierOutputs)
    \/ MapQuery
    \/ CallLlmForPlan(TurnGeneratorOutputs)
    \/ PlanFromSlots
    \/ RunTools
    \/ SaveSessionMemory

TurnSpec ==
    /\ InitTurn /\ [][NextTurn]_vars
    /\ WF_vars(CallLlm(SessionClassifierOutputs))
    /\ WF_vars(MapQuery)
    /\ WF_vars(CallLlmForPlan(TurnGeneratorOutputs))
    /\ WF_vars(PlanFromSlots)
    /\ WF_vars(RunTools)
    /\ WF_vars(SaveSessionMemory)

\* the pipeline at rest
PipeIdle ==
    /\ question = {}
    /\ slots = NoSlots
    /\ llm_plan = NoResponse
    /\ pc = "idle"
    /\ plan = NoPlan
    /\ validation = NotValidated
    /\ results = <<>>
    /\ Fresh

\* time passes
Tick ==
    /\ hist.ticks < MaxTicks
    /\ \E d \in ClockSteps : now' = now + d
    /\ hist' = [hist EXCEPT !.ticks = @ + 1]
    /\ got' = NotRead
    /\ UNCHANGED <<db, log, procs>>
    /\ UNCHANGED pipevars

\* update_session(session_id, patch), alone on the session.  log holds the
\* patches written since the row was created; hist the time of the last
\* write, what it stored, and the first patch of log written after the
\* row was last found older than the TTL.
UpdateSession ==
    /\ Len(log) < MaxPatches
    /\ \E patch \in Patches :
          /\ db' = update_session(db, patch, now)
          /\ log' = IF db.present THEN Append(log, patch) ELSE <<patch>>
          /\ hist' = [hist EXCEPT
                        !.last_write = now,
                        !.stored = db'.data,
                        !.fresh_from = IF ~db.present THEN 1
                                       ELSE IF Expired(db, now) THEN Len(log) + 1
                                       ELSE @]
    /\ got' = NotRead
    /\ UNCHANGED <<now, procs>>
    /\ UNCHANGED pipevars

\* get_session(session_id)
GetSession ==
    /\ ~got.called
    /\ LET r == get_session(db, now)
       IN /\ got' = [called |-> TRUE, data |-> r.data]
          /\ db' = r.row
    /\ UNCHANGED <<now, log, hist, procs>>
    /\ UNCHANGED pipevars

InitMemory == PipeIdle /\ MemIdle

NextMemory == Tick \/ UpdateSession \/ GetSession

MemorySpec == InitMemory /\ [][NextMemory]_vars

\* update_session in a process p, the SELECT: a connection of sqlite3 opens
\* no transaction for it, so the processes may all read before one writes
SelectExisting(p) ==
    /\ procs[p].pc = "idle"
    /\ \E patch \in Patches :
          procs' = [procs EXCEPT ![p] = [pc |-> "read",
                                         existing |-> ReadExisting(db),
                                         patch |-> patch]]
    /\ UNCHANGED <<db, now, got, log, hist>>
    /\ UNCHANGED pipevars

\* update_session in a process p, the INSERT .. ON CONFLICT DO UPDATE of the
\* merged object and its commit
InsertMerged(p) ==
    /\ procs[p].pc = "read"
    /\ db' = Row(_deep_merge(procs[p].existing, procs[p].patch), now)
    /\ procs' = [procs EXCEPT ![p].pc = "done"]
    /\ UNCHANGED <<now, got, log, hist>>
    /\ UNCHANGED pipevars

\* a session some patch has written, or none, and two processes about to
\* update it
InitRace ==
    /\ PipeIdle
    /\ now = 0
    /\ got = NotRead
    /\ procs = [p \in Procs |-> Outside]
    /\ \/ db = NoRow /\ log = <<>> /\ hist = NoHistory
       \/ \E first \in Patches :
             /\ db = Row(first, 0)
             /\ log = <<first>>
             /\ hist = [NoHistory EXCEPT !.last_write = 0, !.stored = first]

NextRace == \E p \in Procs : SelectExisting(p) \/ InsertMerged(p)

RaceSpec == InitRace /\ [][NextRace]_vars

----------------------------------------------------------------------------
(* Properties.  Returned: plan_from_slots has returned its Plan (and the
   answer of the generator is still at hand); Executed: run_tools has run. *)

Returned == pc = "planned"
HasPlan == pc \in {"planned", "executed"}

\* the seven tools of the registry, as the specification lists them
SevenTools ==
    {"overview_daily", "overview_day", "funnel_daily", "user_retention",
     "user_activity", "category_contrib_buyers", "new_vs_old_user_conversion"}

\* the effective tool name of a raw call
RawTool(c) == IF c.tool # "" THEN c.tool ELSE c.tool_key

\* the generator answered with an object that holds a list of calls
ProposesCalls == llm_plan.k = "dict" /\ llm_plan.calls_is_list

\* the generator answered with a not_supported object
ProposesNotSupported ==
    llm_plan.k = "dict" /\ NSTruthy(llm_plan.not_supported)
    /\ NSIsDict(llm_plan.not_supported)

\* C1: every call of the Plan plan_from_slots returns names one of the seven
\* whitelisted tools, whatever the generator answered.
Thm_C1_ToolsWhitelisted ==
    HasPlan => \A i \in 1..Len(plan.calls) : plan.calls[i].tool_key \in SevenTools

\* C1 witness: the generator proposed a tool outside the whitelist and
\* plan_from_slots returned a plan that holds calls.
Wit_C1_ForeignToolProposed ==
    /\ Returned /\ ProposesCalls /\ ~ProposesNotSupported
    /\ \E i \in 1..Len(llm_plan.calls) :
          llm_plan.calls[i].isdict /\ RawTool(llm_plan.calls[i]) = "drop_table"
    /\ plan.calls # <<>>

\* a date the calls cover as the specification counts it: a dt on that day,
\* a [start, end] window around it, or the days-long window ending at end_dt
SpecCallCovers(p, d) ==
    \/ Str10Is(p.dt, d)
    \/ /\ p.start.k \in {"date", "datetime"} /\ p.end.k \in {"date", "datetime"}
       /\ LexKey(p.start) <= 2 * d /\ 2 * d <= LexKey(p.end)
    \/ /\ p.end_dt.k \in {"date", "datetime"}
       /\ LET n == IF p.days.k \in {"int", "numstr"} THEN p.days.n ELSE DEFAULT_DAYS
          IN p.end_dt.n - n + 1 <= d /\ d <= p.end_dt.n

SpecCovers(calls, d) ==
    \E i \in 1..Len(calls) : SpecCallCovers(calls[i].params, d)

\* the answer of the generator is unusable
Unusable ==
    \/ llm_plan.k # "dict"
    \/ ~llm_plan.calls_is_list
    \/ \E i \in 1..Len(llm_plan.calls) : ~llm_plan.calls[i].isdict

\* the answer of the generator is one validation rejects
Rejected ==
    /\ ProposesCalls
    /\ \/ \E i \in 1..Len(llm_plan.calls) :
             RawTool(llm_plan.calls[i]) \notin SevenTools
       \/ \E d \in _extract_dates_from_text(question) :
             ~SpecCovers(llm_plan.calls, d)

\* C2: when the answer of the generator is unusable or rejected by validation
\* (and is no not_supported object), plan_from_slots returns exactly the plan
\* of the rule synthesizer.
Claim_C2_FallbackIsRulePlan ==
    (pc \in {"planned", "raised"} /\ ~ProposesNotSupported /\ (Unusable \/ Rejected))
        => (Returned /\ plan = _plan_from_slots_rule(question, slots))

\* C3: when the slots carry a not_supported object, the returned Plan has no
\* calls and carries a not_supported object, whatever the generator proposes.
Claim_C3_NotSupportedWins ==
    (Returned /\ NSIsDict(slots.not_supported))
        => (plan.calls = <<>> /\ NSIsDict(plan.not_supported))

\* slots of a two-day diagnosis
TwoDayDiagnosis ==
    /\ slots.intent = "diagnose_generic"
    /\ Truthy(slots.prev_dt) /\ Truthy(slots.dt) /\ slots.prev_dt # slots.dt

\* C4: for slots of a two-day diagnosis the calls of the returned Plan are
\* overview_day(prev_dt), overview_day(dt), funnel_daily(days=2, end_dt=dt),
\* then at most one category_contrib_buyers(dt=dt): never more than four,
\* on the rule path and on the generator path.
Claim_C4_DiagnoseTemplate ==
    (Returned /\ TwoDayDiagnosis /\ ~NSIsDict(slots.not_supported)
       /\ ~NSTruthy(plan.not_supported))
        => LET e == ExpectedDiagnose(slots.dt, slots.prev_dt)
               cat == Call("category_contrib_buyers",
                           [NoParams EXCEPT !.dt = slots.dt])
           IN plan.calls \in {e, Append(e, cat)}

\* C5: validate_plan reports the date-coverage error of an explicit date of
\* the question exactly when the plan is not marked not_supported and no call
\* covers the date by dt, by a [start, end] window or by an end_dt window.
Claim_C5_DateErrorIffUncovered ==
    (pc \in {"planned", "raised"} /\ validation.ran)
        => /\ ~validation.raised
           /\ \A d \in _extract_dates_from_text(question) :
                 ([err |-> "date_uncovered", n |-> d] \in validation.errors)
                     <=> /\ ~NSTruthy(PlanForVal(llm_plan).not_supported)
                         /\ ~SpecCovers(PlanForVal(llm_plan).calls, d)

\* the returned Plan as validate_plan reads it
AsValidatorInput(p) ==
    [calls |-> [i \in 1..Len(p.calls) |->
                  [tool |-> p.calls[i].tool, params |-> p.calls[i].params]],
     assumptions |-> [k |-> "list", days |-> Absent],
     not_supported |-> p.not_supported]

\* C6: every Plan plan_from_slots returns passes validate_plan with the same
\* question: the list of errors is empty.
Claim_C6_ReturnedPlanValidates ==
    Returned => LET v == validate_plan(AsValidatorInput(plan), question)
                IN ~v.raised /\ v.errors = {}

\* C7: every days parameter of the returned Plan is an integer of 1..90,
\* also when the generator gave a value out of range or not numeric.
Claim_C7_DaysInRange ==
    Returned => \A i \in 1..Len(plan.calls) :
                   LET days == plan.calls[i].params.days
                   IN days.k # "absent"
                        => (days.k = "int" /\ days.n \in DAYS_MIN..DAYS_MAX)

\* C8: no call of the returned Plan is left with an implicit time scope: the
\* day-count tools carry days and the date-keyed tools carry dt, also when
\* only some calls of the generator's plan carried a time parameter.
Claim_C8_NoImplicitTimeScope ==
    Returned => \A i \in 1..Len(plan.calls) :
                   LET c == plan.calls[i]
                   IN /\ c.tool_key \in TOOLS_NEED_DAYS => NotNone(c.params.days)
                      /\ c.tool_key \in TOOLS_NEED_DT => NotNone(c.params.dt)

\* the Python indices of the calls of the plan, as run_tools writes them
CallKeys == {ToStr(i - 1) : i \in 1..Len(plan.calls)}

\* C9: every from_call of the plots of the returned Plan is the index of a
\* call of the plan, and once run_tools has run it is a key of the results.
Thm_C9_PlotsPointAtCalls ==
    HasPlan => \A j \in 1..Len(plan.plots) :
                  /\ plan.plots[j].from_call \in CallKeys
                  /\ pc = "executed" => plan.plots[j].from_call \in DOMAIN results

\* C9 witness: run_tools has run a plan of several calls, one of them failed,
\* and a plot points at a call after the first.
Wit_C9_PlotOfLaterCallExecuted ==
    /\ pc = "executed"
    /\ \E j \in 1..Len(plan.plots) : plan.plots[j].from_call # ToStr(0)
    /\ \E key \in DOMAIN results : ~results[key].ok

\* C10: whatever JSON shape the generator answers with, plan_from_slots does
\* not raise.
Claim_C10_NeverRaises == pc # "raised"

(* Properties of map_query.  Mapped: map_query has returned its Slots;
   ByRule: the classifier gave nothing usable, the rule fallback ran.      *)

Mapped == pc = "start" /\ question # {}
ByRule == classifier.k = "none"

\* C12: the days _fallback_normalize returns, and with it the days of the
\* Slots of the rule fallback, is null or an integer of 1..90, for every
\* "最近N天" phrase.
Claim_C12_FallbackDaysInRange ==
    (Mapped /\ ByRule) =>
        LET d == _fallback_normalize(question).days
        IN /\ d = Null \/ (d.k = "int" /\ d.n \in 1..90)
           /\ slots.days = Null \/ (slots.days.k = "int" /\ slots.days.n \in 1..90)

\* the range phrases of the question whose two endpoints are days of a month
ValidSpans(q) ==
    {tok \in q : /\ tok.t = "span"
                 /\ ValidMD(SpanM1(tok), SpanD1(tok))
                 /\ ValidMD(IF SpanM2(tok) = 0 THEN SpanM1(tok) ELSE SpanM2(tok),
                            SpanD2(tok))}
\* the day of the first and of the second endpoint, as written
SpanFirst(tok) == Ord(SpanM1(tok), SpanD1(tok))
SpanSecond(tok) ==
    Ord(IF SpanM2(tok) = 0 THEN SpanM1(tok) ELSE SpanM2(tok), SpanD2(tok))

\* C13: for a range phrase with two endpoints, in whatever order they are
\* written, the normalizer returns the later one as dt and the earlier one as
\* prev_dt, so prev_dt <= dt; the Slots of the rule fallback carry them.
Thm_C13_RangeIsOrdered ==
    \A tok \in ValidSpans(question) :
        LET n == _fallback_normalize(question)
        IN /\ n.dt = DateV(Max(SpanFirst(tok), SpanSecond(tok)))
           /\ n.prev_dt = DateV(Min(SpanFirst(tok), SpanSecond(tok)))
           /\ n.prev_dt.n <= n.dt.n
           /\ (Mapped /\ ByRule) => (slots.dt = n.dt /\ slots.prev_dt = n.prev_dt)

\* C13 witness: the rule fallback has mapped a question whose range is
\* written with the later day first, in two months, and has swapped them.
Wit_C13_LaterDayWrittenFirst ==
    /\ Mapped /\ ByRule
    /\ \E tok \in ValidSpans(question) :
          /\ SpanM2(tok) # 0 /\ SpanM2(tok) # SpanM1(tok)
          /\ SpanFirst(tok) > SpanSecond(tok)
          /\ slots.dt = DateV(SpanFirst(tok))
          /\ slots.prev_dt = DateV(SpanSecond(tok))

\* the Slots of the rule fallback of map_query
RuleSlots ==
    _apply_session_ctx(
        _override_complex_to_diagnose(_fallback_map(question), question),
        question, session)

\* C11: for one question the classifier is called at most once and the plan
\* generator at most once; when the call of the classifier gives nothing
\* map_query still returns, with the Slots of the rule fallback, and when the
\* call of the generator gives nothing plan_from_slots still returns, with
\* the Plan of the rule synthesizer.
Thm_C11_OneCallEachThenRules ==
    /\ [](classifier_calls <= 1 /\ generator_calls <= 1)
    /\ []((Mapped /\ ByRule) => slots = RuleSlots)
    /\ []((Returned /\ llm_plan.k = "none")
            => plan = _plan_from_slots_rule(question, slots))
    /\ (pc = "classified" /\ ByRule) ~> (Mapped /\ slots = RuleSlots)
    /\ (pc = "llm_returned" /\ llm_plan.k = "none")
          ~> (Returned /\ plan = _plan_from_slots_rule(question, slots))

\* C11 witness: both calls were made once and gave nothing, and the plan
\* returned, made by the rules, has calls.
Wit_C11_BothCallsFailed ==
    /\ Returned /\ ByRule /\ llm_plan.k = "none"
    /\ classifier_calls = 1 /\ generator_calls = 1
    /\ plan.calls # <<>>

\* C14: in every Slots map_query returns in a turn of a session whose
\* context the orchestrator wrote, prev_dt <= dt when both are present.
Claim_C14_PrevDtNotAfterDt ==
    (pc = "start" /\ turn >= 1 /\ NotNone(slots.dt) /\ NotNone(slots.prev_dt))
        => LexKey(slots.prev_dt) <= LexKey(slots.dt)

\* C15: applying _apply_session_ctx to its own output, with the same question
\* and context, changes no field and appends no assumption.
Claim_C15_SessionCtxIdempotent ==
    Mapped => _apply_session_ctx(slots, question, session) = slots

\* what the question, or the classifier's answer, itself states
StatedDays ==
    IF ByRule
    THEN LET lasts == {tok \in question : tok.t = "lastdays"}
         IN IF lasts # {} THEN IntV((CHOOSE tok \in lasts : TRUE).n)
            ELSE _fallback_normalize(question).days
    ELSE IF NotNone(classifier.days) /\ IntParses(classifier.days)
    THEN IntV(classifier.days.n)
    ELSE Null
StatedDt ==
    IF ByRule THEN _fallback_normalize(question).dt
    ELSE IF classifier.dt.k \in {"date", "str"} THEN classifier.dt
    ELSE Null
HasNote(tags) == \E i \in 1..Len(slots.assumptions) : slots.assumptions[i].tag \in tags

\* C16: whenever map_query fills or changes dt, prev_dt, days or
\* metric_focus by a default, a clamp or a recall from the session, the
\* assumptions of the Slots hold a note about it.
Claim_C16_NoSilentFill ==
    Mapped =>
        /\ slots.dt # StatedDt => HasNote({"recall_dt"})
        /\ slots.prev_dt # _fallback_normalize(question).prev_dt
              => HasNote({"recall_prev_dt"})
        /\ slots.days # StatedDays
              => HasNote({"recall_days", "diag_days_default", "fallback_diag_days",
                          "days_clamped"})
        /\ slots.metric_focus # "none" => HasNote({"focus_recalled", "focus_default"})

\* the question names a family of metrics that cannot be queried
UnsupportedFamily(q) ==
    \/ Has(q, "new_user") /\ HasAny(q, {"conv_rate", "conversion"})
    \/ Has(q, "buyer_count") /\ ~Has(q, "core_metrics")
    \/ Has(q, "dau")
    \/ Has(q, "retention_rate")
\* what map_query decided
Decision(s) ==
    IF NSTruthy(s.not_supported) THEN "not_supported"
    ELSE IF s.intent \in {"overview_day", "overview_daily"} THEN "overview"
    ELSE IF s.intent = "diagnose_generic" THEN "diagnose"
    ELSE "other"

\* C17: for a question that names an unsupported family of metrics map_query
\* decides the same (not supported, an overview, or a diagnosis) whether the
\* classifier answered, with whatever intent, or the rule fallback ran.
Claim_C17_SameDecisionOnBothPaths ==
    (Mapped /\ UnsupportedFamily(question)) => Decision(slots) = Decision(RuleSlots)

\* C18: for a question with a phrase of observation and a phrase asking which
\* category is behind it, that is not marked not_supported, map_query returns
\* the intent diagnose_generic whatever the classifier or the fallback proposed.
Claim_C18_ObservationAndCategoryIsDiagnosis ==
    (/\ Mapped
     /\ HasAny(question, {"dropped", "why"})
     /\ HasAny(question, {"which_category", "which_categories", "drag"})
     /\ ~NSTruthy(slots.not_supported))
        => slots.intent = "diagnose_generic"

\* C19: for the empty question map_query returns the degenerate Slots
\* (intent unknown, nothing else, no assumptions) without a call of the
\* classifier and without reading the session context.
Thm_C19_EmptyQuestionIsDegenerate ==
    question = {} =>
        /\ pc # "classified" /\ classifier_calls = 0
        /\ pc = "start" => slots = NoSlots

\* C19 witness: map_query has returned for the empty question in a session
\* that holds a day, a day count and a metric to recall.
Wit_C19_EmptyQuestionInLiveSession ==
    /\ pc = "start" /\ question = {}
    /\ Truthy(session.last_dt) \/ session.last_days # Null

\* C20: for slots whose intent is "unknown" and that carry no not_supported
\* object, the Plan plan_from_slots returns has no calls and no plots,
\* whatever the generator proposes.
Claim_C20_UnknownIntentPlansNothing ==
    (Returned /\ slots.intent = "unknown" /\ ~NSIsDict(slots.not_supported))
        => (plan.calls = <<>> /\ plan.plots = <<>>)

----------------------------------------------------------------------------
(* Properties of the session store *)

\* the patches i of a log that hold the key k
Holding(patches, k) == {i \in 1..Len(patches) : k \in DOMAIN patches[i]}
Latest(S) == CHOOSE i \in S : \A j \in S : j <= i
\* the patches that end the log's writes of k and all hold an object for it,
\* none of them with a leaf between
DictRun(patches, k) ==
    {i \in Holding(patches, k) :
        \A j \in Holding(patches, k) : j >= i => patches[j][k].dict}
\* what the claim describes: every key some patch holds, with the value of
\* the latest patch that holds it; when that is an object, the object
\* merged key by key from the objects written since the last leaf
MergedInOrder(patches) ==
    [k \in UNION {DOMAIN patches[i] : i \in 1..Len(patches)} |->
        LET last == patches[Latest(Holding(patches, k))][k]
            run == DictRun(patches, k)
        IN IF ~last.dict THEN last
           ELSE Dict([x \in UNION {DOMAIN patches[i][k].obj : i \in run} |->
                        patches[Latest({i \in run : x \in DOMAIN patches[i][k].obj})][k].obj[x]])]

\* C21: after update_session calls on one session within the TTL the row,
\* and what get_session returns, is the deep merge of the patches in call
\* order: later leaves win, keys absent from later patches keep their value,
\* nested objects are merged.
Thm_C21_StoreIsDeepMergeInOrder ==
    /\ db.present => db.data = MergedInOrder(log)
    /\ (got.called /\ db.present) => got.data = MergedInOrder(log)

\* C21 witness: get_session has returned an object whose nested object holds
\* one key from an earlier patch and one from a later.
Wit_C21_NestedKeysFromTwoPatches ==
    /\ got.called /\ Len(log) = 2
    /\ "preferences" \in DOMAIN got.data
    /\ got.data["preferences"].dict
    /\ DOMAIN got.data["preferences"].obj = NestedKeys
    /\ \A i \in 1..2 : "preferences" \in DOMAIN log[i]
                        /\ log[i]["preferences"].dict
                        /\ DOMAIN log[i]["preferences"].obj # NestedKeys

\* C22: get_session returns {} when the session was never written or its
\* last update is older than the TTL at the read, and what was stored
\* otherwise; each update_session restarts the clock.
Thm_C22_EmptyIffAbsentOrExpired ==
    got.called =>
        got.data = IF hist.last_write = -1 \/ now - hist.last_write > SESSION_TTL_SEC
                   THEN EmptyObj
                   ELSE hist.stored

\* C22 witness: a session written, left for the whole TTL, written again and
\* read later than the TTL after its first write gives its data.
Wit_C22_UpdateRestartsClock ==
    /\ got.called /\ got.data # EmptyObj
    /\ now > SESSION_TTL_SEC
    /\ Len(log) = 2

\* C23: after two concurrent update_session calls on one session the row is
\* what the two patches give applied one after the other in some order.
Claim_C23_ConcurrentUpdatesSerialize ==
    (\A p \in Procs : procs[p].pc = "done") =>
        \E p \in Procs : \E r \in Procs \ {p} :
            db.data = MergedInOrder(log \o <<procs[p].patch, procs[r].patch>>)

\* C30: once the last update of a session is older than the TTL no later
\* get_session returns a field written before: what it returns holds the
\* patches written since, nothing else.
Claim_C30_ExpiredDataNeverReturns ==
    (got.called /\ db.present) =>
        got.data = MergedInOrder(SubSeq(log, hist.fresh_from, Len(log)))

\* C24: run_tools over n calls returns n results under the keys "0".."n-1",
\* each with the tool and parameters of its call; a result is ok, or not ok
\* with the error of an empty table, or not ok with the text of the
\* exception, and the calls after a failed one have their results too.
Thm_C24_OneResultPerCall ==
    pc = "executed" =>
        /\ DOMAIN results = {ToStr(i - 1) : i \in 1..Len(plan.calls)}
        /\ \A i \in 1..Len(plan.calls) :
              LET r == results[ToStr(i - 1)]
              IN /\ r.tool_key = plan.calls[i].tool_key
                 /\ r.params = plan.calls[i].params
                 /\ \/ r.ok /\ r.error = "None"
                    \/ ~r.ok /\ r.error \in {"empty data", "str(e)"}

\* C24 witness: the tool of the first call raised and a later call of the plan
\* has its table.
Wit_C24_LaterCallRunsAfterRaise ==
    /\ pc = "executed"
    /\ Len(plan.calls) >= 2
    /\ ToStr(0) \in DOMAIN results /\ results[ToStr(0)].error = "str(e)"
    /\ \E key \in DOMAIN results : results[key].ok

\* C25: for a diagnosis question that names no metric the merge takes
\* metric_focus from the summary of the previous answer when it mentions UV
\* or buyers, else from last_metric_focus, else the default, and notes which.
Claim_C25_FocusFromSummaryFirst ==
    (Mapped /\ slots.intent = "diagnose_generic"
            /\ ~_question_specifies_metric(question)) =>
        /\ slots.metric_focus =
              IF session.last_answer_summary \in {"uv", "buyers"}
              THEN session.last_answer_summary
              ELSE IF session.last_metric_focus # "none"
              THEN session.last_metric_focus
              ELSE DEFAULT_METRIC_FOCUS
        /\ HasNote({"focus_recalled", "focus_default"})

(* Properties of the turns of a session.  InSession: map_query has returned
   the Slots of a question asked after some turn was saved.               *)

InSession == pc = "start" /\ turn >= 2
\* the question names a date
NamesDate(q) == \E tok \in q : tok.t \in {"date", "span", "yesterday"}

\* C26: once a turn with dt = d is saved, a following question that names no
\* date gets dt = d and a note of the recall; a date the question names is
\* never replaced by the last_dt of the session.
Claim_C26_DtRecalledOnlyWhenUnnamed ==
    InSession =>
        /\ (question # {} /\ ~NamesDate(question) /\ Truthy(session.last_dt))
              => slots.dt = session.last_dt /\ HasNote({"recall_dt"})
        /\ NamesDate(question) => ~HasNote({"recall_dt"})

(* Properties of the rule-based synthesizer *)

\* the generator gave nothing, the Plan is the rule's; the Slots hold a day,
\* the question no range word, and the intent is one of the range-style ones
SingleDayCase ==
    /\ Returned /\ llm_plan.k = "none"
    /\ Truthy(slots.dt)
    /\ ~Has(question, "recent")
    /\ slots.intent \in {"funnel_daily", "overview_daily", "user_retention",
                         "user_activity"}
\* funnel_daily(days=1, end_dt=dt), or overview_day(dt=dt)
SingleDayCall ==
    IF slots.intent = "funnel_daily"
    THEN Call("funnel_daily", [NoParams EXCEPT !.days = IntV(1), !.end_dt = slots.dt])
    ELSE Call("overview_day", [NoParams EXCEPT !.dt = slots.dt])

\* C27 as stated: with a dt in the Slots and no range language in the
\* question a range-style intent gives exactly the one single-day call.
Claim_C27_SingleDayCall == SingleDayCase => plan.calls = <<SingleDayCall>>

\* C27 amended: the same, for Slots that hold no not_supported object (one
\* that does gives the Plan without calls, whatever the intent and the dt).
Thm_C27_SingleDayCallWhenSupported ==
    (SingleDayCase /\ ~NSIsDict(slots.not_supported))
        => plan.calls = <<SingleDayCall>>

\* C27 witness: the rule has planned a retention question with a day and a
\* day count in the Slots.
Wit_C27_RetentionOfOneDay ==
    /\ SingleDayCase /\ ~NSIsDict(slots.not_supported)
    /\ slots.intent = "user_retention"
    /\ slots.days.k = "int"

\* the turn being saved has a day other than the day of the single-day
\* overview saved before it
SecondDaySaved ==
    /\ pc' = "saved" /\ pc # "saved"
    /\ session.last_intent = "overview_day" /\ Truthy(session.last_dt)
    /\ Truthy(slots.dt) /\ slots.dt # session.last_dt

Claim_C29_NoStalePrevDt ==
    [][(pc' = "saved" /\ pc # "saved"
          /\ session'.last_dt # session.last_dt /\ Truthy(session'.prev_dt))
        => session'.prev_dt = session.last_dt]_vars

====
